---- MODULE Spec2Model ----
(***************************************************************************)
(* A model of perf/pgbench.py: the avocado test Pgbench (setUp, test,      *)
(* tearDown, run_cmd) and its log parser extract_tps_stats.                *)
(*                                                                         *)
(* Text is modelled character by character: a line is a sequence of        *)
(* one-character strings (without its newline), a file is a sequence of    *)
(* lines.  Python floats are modelled as binary floating-point numbers     *)
(* <<m, e>> (value m * 2^e) with MantDig significant bits and IEEE         *)
(* round-to-nearest-even after every operation; the exponent is unbounded. *)
(***************************************************************************)
EXTENDS Integers, Sequences, FiniteSets, TLC

VARIABLES
  pc,                  \* position of the test run
  params,              \* the test parameters as configured (self.params)
  euid_root,           \* os.geteuid() == 0
  distro,              \* distro.detect().name
  pgbench_present,     \* self.sm.check_installed("pgbench")
  already_installed,   \* self.already_installed
  benchmark_duration,  \* self.benchmark_duration
  transaction_count,   \* self.transaction_count
  workload_iteration,  \* self.workload_iteration
  ite,                 \* last iteration of test()'s loop that was started
  payload,             \* content of pgbench_payload.log (NoFile: absent)
  run_logs,            \* the per-iteration files pgbench_run_<ite>_<ts>.log
  report,              \* what extract_tps_stats printed / how it ended
  cancelled,           \* self.cancel() was called in this run
  sm_installed,        \* history: packages given to self.sm.install
  sm_removed,          \* history: packages given to self.sm.remove
  cmds,                \* history: limit option of each benchmark invocation
  results,             \* history: stdout of each successful benchmark run
  extract_runs,        \* history: number of calls of extract_tps_stats
  extract_input        \* history: the payload the extractor read

vars == <<pc, params, euid_root, distro, pgbench_present, already_installed,
          benchmark_duration, transaction_count, workload_iteration, ite,
          payload, run_logs, report, cancelled, sm_installed, sm_removed,
          cmds, results, extract_runs, extract_input>>

---------------------------------------------------------------------------
(* Bounds of the model *)

\* significant bits of a float (sys.float_info.mant_dig, scaled down)
MantDig == 16

\* longest log drawn as input of extract_tps_stats
MaxLines == 4

\* largest value of benchmark_duration and transaction_count
MaxParam == 2

\* largest value of workload_iteration
MaxIter == 2

---------------------------------------------------------------------------
(* Floating point: float(), +, /, comparison, "{:.2f}" *)

Zero == <<0, 0>>

RECURSIVE BitLen(_)
BitLen(T) == IF T = 0 THEN 0 ELSE 1 + BitLen(T \div 2)

\* (T + sticky) * 2^e rounded to MantDig bits, ties to even; sticky says
\* that a non-zero part below T's last bit was dropped
RoundF(T, sticky, e) ==
  IF T = 0 THEN Zero
  ELSE LET bl == BitLen(T) IN
    IF bl <= MantDig
    THEN <<T * 2^(MantDig - bl), e - (MantDig - bl)>>
    ELSE LET n    == bl - MantDig
             q    == T \div 2^n
             r    == T % 2^n
             half == 2^(n - 1)
             up   == r > half \/ (r = half /\ (sticky \/ q % 2 = 1))
             q1   == IF up THEN q + 1 ELSE q
         IN IF q1 = 2^MantDig THEN <<2^(MantDig - 1), e + n + 1>>
                              ELSE <<q1, e + n>>

\* a <= b for non-negative normalised floats
LeF(a, b) ==
  IF a[1] = 0 THEN TRUE
  ELSE IF b[1] = 0 THEN FALSE
  ELSE a[2] < b[2] \/ (a[2] = b[2] /\ a[1] <= b[1])

\* a + b
AddF(a, b) ==
  IF a[1] = 0 THEN b
  ELSE IF b[1] = 0 THEN a
  ELSE LET hi == IF a[2] >= b[2] THEN a ELSE b
           lo == IF a[2] >= b[2] THEN b ELSE a
           d  == hi[2] - lo[2]
       IN IF d <= 2
          THEN RoundF(hi[1] * 2^d + lo[1], FALSE, lo[2])
          ELSE IF d > MantDig + 2
          THEN hi
          ELSE RoundF(hi[1] * 4 + (lo[1] \div 2^(d - 2)),
                      lo[1] % 2^(d - 2) # 0, hi[2] - 2)

RECURSIVE ShiftFor(_, _, _)
ShiftFor(N, D, k) == IF N * 2^k >= D THEN k ELSE ShiftFor(N, D, k + 1)

\* a / n for an integer n > 0 (len(tps_values))
DivF(a, n) ==
  IF a[1] = 0 THEN Zero
  ELSE LET k == ShiftFor(1, 4 * n, 0)
           X == a[1] * 2^k
       IN RoundF(X \div n, X % n # 0, a[2] - k)

\* the digits after the second decimal dropped instead of rounded
Fmt2Truncate(a) ==
  IF a[2] >= 0 THEN a[1] * 2^a[2] * 100
  ELSE (a[1] * 100) \div 2^(0 - a[2])

\* "{:.2f}": the value in hundredths, the exact binary value rounded to the
\* nearest hundredth, ties to even
Fmt2(a) ==
  IF a[2] >= 0 THEN a[1] * 2^a[2] * 100
  ELSE LET X == a[1] * 100
           d == 2^(0 - a[2])
           q == X \div d
           r == X % d
       IN IF 2 * r > d \/ (2 * r = d /\ q % 2 = 1) THEN q + 1 ELSE q

---------------------------------------------------------------------------
(* Characters and the pattern tps\s*=\s*([\d.]+) *)

Digits == <<"0", "1", "2", "3", "4", "5", "6", "7", "8", "9">>

IsDigit(c) == \E i \in 1..10 : Digits[i] = c

DigitValue(c) == (CHOOSE i \in 1..10 : Digits[i] = c) - 1

\* \s (within a line: blank and tab)
IsSpace(c) == c \in {" ", "\t"}

\* [\d.]
IsNumChar(c) == IsDigit(c) \/ c = "."

\* the end of a greedy run: the first position >= i of the line that does
\* not hold a character of the class (Len(line) + 1 when there is none)
RECURSIVE SkipSpace(_, _)
SkipSpace(line, i) ==
  IF i <= Len(line) /\ IsSpace(line[i]) THEN SkipSpace(line, i + 1) ELSE i

RECURSIVE SkipNum(_, _)
SkipNum(line, i) ==
  IF i <= Len(line) /\ IsNumChar(line[i]) THEN SkipNum(line, i + 1) ELSE i

NoMatch == <<"NoMatch">>

\* the group captured when the pattern matches at position i, or NoMatch
MatchAt(line, i) ==
  IF i + 2 <= Len(line)
     /\ line[i] = "t" /\ line[i + 1] = "p" /\ line[i + 2] = "s"
  THEN LET j == SkipSpace(line, i + 3) IN
       IF j <= Len(line) /\ line[j] = "="
       THEN LET k == SkipSpace(line, j + 1)
                n == SkipNum(line, k)
            IN IF n > k THEN SubSeq(line, k, n - 1) ELSE NoMatch
       ELSE NoMatch
  ELSE NoMatch

RECURSIVE SearchFrom(_, _)
SearchFrom(line, i) ==
  IF i > Len(line) THEN NoMatch
  ELSE IF MatchAt(line, i) # NoMatch THEN MatchAt(line, i)
  ELSE SearchFrom(line, i + 1)

RECURSIVE SearchBack(_, _)
SearchBack(line, i) ==
  IF i < 1 THEN NoMatch
  ELSE IF MatchAt(line, i) # NoMatch THEN MatchAt(line, i)
  ELSE SearchBack(line, i - 1)

\* the last occurrence on the line instead of the first
SearchLast(line) == SearchBack(line, Len(line))

\* tps_pattern.search(line).group(1), or NoMatch: the leftmost match
Search(line) == SearchFrom(line, 1)

---------------------------------------------------------------------------
(* float(token) *)

CountDots(tok) == Cardinality({i \in 1..Len(tok) : tok[i] = "."})

\* float() accepts a token of [\d.]+ when it has a digit and at most one dot
ValidNumber(tok) ==
  CountDots(tok) <= 1 /\ \E i \in 1..Len(tok) : IsDigit(tok[i])

RECURSIVE DigitsValue(_, _)
DigitsValue(tok, acc) ==
  IF tok = <<>> THEN acc
  ELSE DigitsValue(Tail(tok),
                   IF tok[1] = "." THEN acc ELSE 10 * acc + DigitValue(tok[1]))

\* number of digits after the decimal point
FracDigits(tok) ==
  IF CountDots(tok) = 0 THEN 0
  ELSE Len(tok) - (CHOOSE i \in 1..Len(tok) : tok[i] = ".")

\* float(tok) for a valid token: the nearest float to N / 10^f
ParseFloat(tok) ==
  LET N == DigitsValue(tok, 0)
      D == 10^FracDigits(tok)
  IN IF N = 0 THEN Zero
     ELSE LET k == ShiftFor(N, 2^(MantDig + 1) * D, 0)
              X == N * 2^k
          IN RoundF(X \div D, X % D # 0, 0 - k)

---------------------------------------------------------------------------
(* extract_tps_stats *)

NoFile == <<"NoFile">>

\* the groups captured line by line, in file order
RECURSIVE Captured(_)
Captured(lines) ==
  IF lines = <<>> THEN <<>>
  ELSE IF Search(lines[1]) # NoMatch
       THEN <<Search(lines[1])>> \o Captured(Tail(lines))
       ELSE Captured(Tail(lines))

\* sum(tps_values): from the left, starting at 0
RECURSIVE SumF(_, _)
SumF(acc, values) ==
  IF values = <<>> THEN acc ELSE SumF(AddF(acc, values[1]), Tail(values))

RECURSIVE MinF(_)
MinF(values) ==
  IF Len(values) = 1 THEN values[1]
  ELSE LET rest == MinF(Tail(values)) IN
       IF LeF(values[1], rest) THEN values[1] ELSE rest

RECURSIVE MaxF(_)
MaxF(values) ==
  IF Len(values) = 1 THEN values[1]
  ELSE LET rest == MaxF(Tail(values)) IN
       IF LeF(rest, values[1]) THEN values[1] ELSE rest

NoReport ==
  [outcome |-> "none", values |-> <<>>, min |-> Zero, max |-> Zero,
   average |-> Zero, row |-> <<>>]

\* what a call of extract_tps_stats on a file of this content does:
\*   "file_not_found"  open() raised FileNotFoundError, reported, return
\*   "ValueError"      float() raised ValueError, which nothing catches
\*   "no_data"         tps_values is empty, reported
\*   "stats"           the values and the table row (in hundredths) printed
extract_tps_stats(file) ==
  IF file = NoFile THEN [NoReport EXCEPT !.outcome = "file_not_found"]
  ELSE LET toks == Captured(file) IN
    IF \E i \in 1..Len(toks) : ~ValidNumber(toks[i])
    THEN [NoReport EXCEPT !.outcome = "ValueError"]
    ELSE LET tps_values == [i \in 1..Len(toks) |-> ParseFloat(toks[i])] IN
      IF tps_values = <<>> THEN [NoReport EXCEPT !.outcome = "no_data"]
      ELSE LET lo  == MinF(tps_values)
               hi  == MaxF(tps_values)
               avg == DivF(SumF(Zero, tps_values), Len(tps_values))
           IN [outcome |-> "stats", values |-> tps_values, min |-> lo,
               max |-> hi, average |-> avg,
               row |-> <<Fmt2(lo), Fmt2(hi), Fmt2(avg)>>]

---------------------------------------------------------------------------
(* Input logs of the extractor *)

LineIncluding ==
  <<"t","p","s"," ","="," ","1","2","0",".","5","0"," ","(","i","n","c","l",
    "u","d","i","n","g"," ","c","o","n","n","e","c","t","i","o","n","s"," ",
    "e","s","t","a","b","l","i","s","h","i","n","g",")">>

LinePlain == <<"t","p","s"," ","="," ","1","3","5",".","0">>

LineText == <<"r","a","n","d","o","m"," ","t","e","x","t">>

LineTight == <<"t","p","s","=","9","9",".","9","9","9">>

LineDots == <<"t","p","s"," ","="," ","1",".","2",".","3">>

LineTwice ==
  <<"t","p","s"," ","=","2","1",".","4","6"," ","t","p","s","="," ","7">>

LineUpper == <<"T","P","S"," ","="," ","5"," ","t","p","s"," ","6">>

LineInner == <<"x","t","p","s"," "," ","=","\t",".","5"," ">>

Lines ==
  {LineIncluding, LinePlain, LineText, LineTight, LineDots, LineTwice,
   LineUpper, LineInner}

Logs == UNION {[1..n -> Lines] : n \in 0..MaxLines}

---------------------------------------------------------------------------
(* The test run: setUp, test, tearDown *)

DistroNames == {"debian", "fedora", "rhel", "SuSE", "ubuntu"}

None == "None"

\* get_distro_name()
get_distro_name(name) ==
  IF name \in {"debian", "fedora", "rhel", "SuSE"} THEN name ELSE None

Cancel == <<"cancel">>

\* no self.cancel(): the failure is handed back to the caller
run_cmd_lenient(exit_status, text, ignore_failure) == <<exit_status, text>>

\* run_cmd(cmd, ignore_failure) when process.run(cmd) ended with exit_status
\* and text (stderr of a failed command, stdout of a successful one):
\* the list returned, or Cancel when self.cancel() raised
run_cmd(exit_status, text, ignore_failure) ==
  IF exit_status # 0 /\ ignore_failure THEN <<exit_status, text>>
  ELSE IF exit_status # 0 THEN Cancel
  ELSE <<exit_status, text>>

\* the packages install_and_initialize_postgres installs and tearDown removes
Packages(distro_name) ==
  {"postgresql", "postgresql-contrib"}
    \cup (IF distro_name \in {"fedora", "rhel"} THEN {"postgresql-server"}
                                                ELSE {})

DefaultDuration == 120

\* no default when neither limit is given
ValidateLimitsNoDefault(duration, count) == duration

\* setUp's validation of the two limits: the new self.benchmark_duration
ValidateLimits(duration, count) ==
  IF duration > 0 /\ count > 0 THEN duration
  ELSE IF duration = 0 /\ count = 0 THEN DefaultDuration
  ELSE duration

\* the limit option test() puts on the pgbench command line
BenchmarkLimit(duration, count) ==
  IF duration > 0 THEN <<"--time", duration>>
  ELSE <<"--transactions", count>>

RECURSIVE str(_)
str(n) == IF n < 10 THEN <<Digits[n + 1]>>
          ELSE str(n \div 10) \o <<Digits[(n % 10) + 1]>>

\* the line "==================Iteration {}=============    ...".format(ite)
Header(n) ==
  [i \in 1..18 |-> "="]
    \o <<"I", "t", "e", "r", "a", "t", "i", "o", "n", " ">> \o str(n)
    \o [i \in 1..13 |-> "="] \o [i \in 1..28 |-> " "]

\* open(payload_file, "w"): the file holds the last segment only
WriteSegment(file, n, out) == <<Header(n)>> \o out

\* open(payload_file, "a") and the three writes; out is the text result[1]
\* as its lines, the last one ended by the "\n" written after it
AppendSegment(file, n, out) ==
  (IF file = NoFile THEN <<>> ELSE file) \o <<Header(n)>> \o out

\* what pgbench may print
Outputs == {<<LineIncluding, LinePlain>>, <<LineText>>, <<LineDots>>}

Init ==
  /\ pc = "setUp"
  /\ params \in [benchmark_duration : 0..MaxParam,
                 transaction_count : 0..MaxParam,
                 workload_iteration : 0..MaxIter]
  /\ euid_root \in BOOLEAN
  /\ distro \in DistroNames
  /\ pgbench_present \in BOOLEAN
  /\ already_installed = TRUE
  /\ benchmark_duration = 0
  /\ transaction_count = 0
  /\ workload_iteration = 0
  /\ ite = 0
  /\ payload = NoFile
  /\ run_logs = <<>>
  /\ report = NoReport
  /\ cancelled = "no"
  /\ sm_installed = {}
  /\ sm_removed = {}
  /\ cmds = <<>>
  /\ results = <<>>
  /\ extract_runs = 0
  /\ extract_input = NoFile

\* self.cancel(): the rest of the phase is skipped, the framework goes on
\* to tearDown
cancel(phase) ==
  /\ pc' = "tearDown"
  /\ cancelled' = phase

env == <<params, euid_root, distro, pgbench_present>>

limits == <<benchmark_duration, transaction_count, workload_iteration>>

files == <<ite, payload, run_logs, report, cmds, results, extract_runs,
           extract_input>>

setUp_privileges ==
  /\ pc = "setUp"
  /\ IF ~euid_root THEN cancel("setUp")
     ELSE pc' = "setUp_install" /\ UNCHANGED cancelled
  /\ UNCHANGED <<env, limits, files, already_installed, sm_installed,
                 sm_removed>>

\* the pgbench check and install_and_initialize_postgres
setUp_install ==
  /\ pc = "setUp_install"
  /\ IF pgbench_present
     THEN /\ pc' = "setUp_service"
          /\ UNCHANGED <<cancelled, already_installed, sm_installed>>
     ELSE IF get_distro_name(distro) # None
     THEN /\ sm_installed' = Packages(get_distro_name(distro))
          /\ \E initdb \in {<<0, "">>, <<1, "not empty">>, <<1, "error">>} :
               LET output == run_cmd(initdb[1], initdb[2], TRUE) IN
               IF get_distro_name(distro) \in {"fedora", "rhel"}
                  /\ output[1] # 0 /\ output[2] # "not empty"
               THEN cancel("setUp") /\ UNCHANGED already_installed
               ELSE /\ already_installed' = FALSE
                    /\ pc' = "setUp_service"
                    /\ UNCHANGED cancelled
     ELSE /\ cancel("setUp")
          /\ UNCHANGED <<already_installed, sm_installed>>
  /\ UNCHANGED <<env, limits, files, sm_removed>>

\* restart of the service and createuser
setUp_service ==
  /\ pc = "setUp_service"
  /\ \E createuser \in {<<0, "">>, <<1, "already exists">>, <<1, "error">>} :
       LET output == run_cmd(createuser[1], createuser[2], TRUE) IN
       IF output[1] # 0 /\ output[2] # "already exists"
       THEN cancel("setUp")
       ELSE pc' = "setUp_params" /\ UNCHANGED cancelled
  /\ UNCHANGED <<env, limits, files, already_installed, sm_installed,
                 sm_removed>>

setUp_params ==
  /\ pc = "setUp_params"
  /\ benchmark_duration' =
       ValidateLimits(params.benchmark_duration, params.transaction_count)
  /\ transaction_count' = params.transaction_count
  /\ workload_iteration' = params.workload_iteration
  /\ pc' = "setUp_db"
  /\ UNCHANGED <<env, files, cancelled, already_installed, sm_installed,
                 sm_removed>>

\* createdb and pgbench -i
setUp_db ==
  /\ pc = "setUp_db"
  /\ \E createdb \in {0, 1}, init \in {0, 1} :
       IF run_cmd(createdb, "", FALSE) = Cancel
          \/ run_cmd(init, "", FALSE) = Cancel
       THEN cancel("setUp")
       ELSE pc' = "test" /\ UNCHANGED cancelled
  /\ UNCHANGED <<env, limits, files, already_installed, sm_installed,
                 sm_removed>>

\* one iteration of test()'s loop
test_iteration ==
  /\ pc = "test"
  /\ ite < workload_iteration
  /\ ite' = ite + 1
  /\ cmds' = Append(cmds, BenchmarkLimit(benchmark_duration,
                                         transaction_count))
  /\ \E exit_status \in {0, 1}, out \in Outputs :
       LET result == run_cmd(exit_status, out, FALSE) IN
       IF result = Cancel
       THEN /\ cancel("test")
            /\ UNCHANGED <<payload, run_logs, results>>
       ELSE /\ IF result[1] = 0
               THEN /\ payload' = AppendSegment(payload, ite', result[2])
                    /\ run_logs' = run_logs @@ (ite' :> result[2])
                    /\ results' = Append(results, result[2])
               ELSE UNCHANGED <<payload, run_logs, results>>
            /\ UNCHANGED <<pc, cancelled>>
  /\ UNCHANGED <<env, limits, report, extract_runs, extract_input,
                 already_installed, sm_installed, sm_removed>>

\* the call of extract_tps_stats that ends test()
test_extract ==
  /\ pc = "test"
  /\ ite >= workload_iteration
  /\ report' = extract_tps_stats(payload)
  /\ extract_runs' = extract_runs + 1
  /\ extract_input' = payload
  /\ pc' = "tearDown"
  /\ UNCHANGED <<env, limits, ite, payload, run_logs, cmds, results,
                 cancelled, already_installed, sm_installed, sm_removed>>

tearDown ==
  /\ pc = "tearDown"
  /\ \E dropdb \in {0, 1} : run_cmd(dropdb, "", TRUE) # Cancel
  /\ sm_removed' = IF ~already_installed
                   THEN Packages(get_distro_name(distro))
                   ELSE sm_removed
  /\ pc' = "done"
  /\ UNCHANGED <<env, limits, files, cancelled, already_installed,
                 sm_installed>>

Next ==
  \/ setUp_privileges
  \/ setUp_install
  \/ setUp_service
  \/ setUp_params
  \/ setUp_db
  \/ test_iteration
  \/ test_extract
  \/ tearDown

Spec == Init /\ [][Next]_vars

---------------------------------------------------------------------------
(* The extractor alone, on any log *)

InitExtract ==
  /\ pc = "extract"
  /\ payload \in Logs \cup {NoFile}
  /\ params = [benchmark_duration |-> 0, transaction_count |-> 0,
               workload_iteration |-> 0]
  /\ euid_root = TRUE
  /\ distro = "debian"
  /\ pgbench_present = TRUE
  /\ already_installed = TRUE
  /\ benchmark_duration = 0
  /\ transaction_count = 0
  /\ workload_iteration = 0
  /\ ite = 0
  /\ run_logs = <<>>
  /\ report = NoReport
  /\ cancelled = "no"
  /\ sm_installed = {}
  /\ sm_removed = {}
  /\ cmds = <<>>
  /\ results = <<>>
  /\ extract_runs = 0
  /\ extract_input = NoFile

extract ==
  /\ pc = "extract"
  /\ report' = extract_tps_stats(payload)
  /\ extract_runs' = extract_runs + 1
  /\ extract_input' = payload
  /\ pc' = "done"
  /\ UNCHANGED <<env, limits, ite, payload, run_logs, cmds, results,
                 cancelled, already_installed, sm_installed, sm_removed>>

NextExtract == extract

SpecExtract == InitExtract /\ [][NextExtract]_vars

---------------------------------------------------------------------------
(* Properties of extract_tps_stats, checked under SpecExtract *)

Extracted == pc = "done" /\ extract_runs = 1

\* the pattern occurs somewhere on the line
HasOccurrence(line) == \E i \in 1..Len(line) : MatchAt(line, i) # NoMatch

\* the group of the occurrence that starts first on the line
FirstOccurrence(line) ==
  MatchAt(line, CHOOSE i \in 1..Len(line) :
                  /\ MatchAt(line, i) # NoMatch
                  /\ \A h \in 1..(i - 1) : MatchAt(line, h) = NoMatch)

\* a token of digits with at most one decimal point
WellFormed(tok) ==
  /\ \A i \in 1..Len(tok) : IsNumChar(tok[i])
  /\ \E i \in 1..Len(tok) : IsDigit(tok[i])
  /\ \A i, j \in 1..Len(tok) : (tok[i] = "." /\ tok[j] = ".") => i = j

MatchingLines(file) == {j \in 1..Len(file) : HasOccurrence(file[j])}

Reorderings(file) ==
  {[i \in 1..Len(file) |-> file[f[i]]] :
     f \in {g \in [1..Len(file) -> 1..Len(file)] :
              \A a, b \in 1..Len(file) : g[a] = g[b] => a = b}}

\* C1: whenever statistics are reported, minimum <= every captured value
\* <= maximum and minimum <= average <= maximum, the average being
\* sum(tps_values) / len(tps_values) as the code computes it.
C1_StatsWithinRange ==
  (Extracted /\ report.outcome = "stats") =>
    /\ \A i \in 1..Len(report.values) :
         LeF(report.min, report.values[i]) /\ LeF(report.values[i], report.max)
    /\ LeF(report.min, report.average)
    /\ LeF(report.average, report.max)

\* C2: statistics are reported if and only if the file exists and some line
\* matches; a missing file ends in "file not found", a file without a
\* matching line in "no data", and no exception propagates.
C2_StatsIffMatch ==
  Extracted =>
    /\ report.outcome = "stats"
         <=> (payload # NoFile /\ MatchingLines(payload) # {})
    /\ payload = NoFile => report.outcome = "file_not_found"
    /\ (payload # NoFile /\ MatchingLines(payload) = {})
         => report.outcome = "no_data"

\* C3: every captured token is a well-formed number (digits, at most one
\* decimal point) and the extractor ends in one of exactly three outcomes:
\* statistics, "file not found", "no data".
C3_OnlyWellFormedTokens ==
  Extracted =>
    /\ payload # NoFile =>
         \A j \in MatchingLines(payload) :
           WellFormed(FirstOccurrence(payload[j]))
    /\ report.outcome \in {"stats", "file_not_found", "no_data"}

\* C4: each line contributes at most one sample, the first occurrence of
\* the pattern on it; lines without an occurrence contribute nothing and
\* raise no error; the samples are in the order of their lines.
C4_FirstMatchPerLineInOrder ==
  (Extracted /\ payload # NoFile) =>
    LET matching == MatchingLines(payload)
        Rank(j)  == Cardinality({h \in matching : h <= j})
    IN /\ report.outcome \in {"stats", "no_data"} =>
            /\ Len(report.values) = Cardinality(matching)
            /\ \A j \in matching :
                 report.values[Rank(j)]
                   = ParseFloat(FirstOccurrence(payload[j]))
       /\ report.outcome = "ValueError" =>
            \E j \in matching : ~ValidNumber(FirstOccurrence(payload[j]))
       /\ report.outcome \in {"stats", "no_data", "ValueError"}

\* a log with a line of two occurrences, a line of none and a third line
C4_Witness ==
  /\ Extracted
  /\ payload = <<LineTwice, LineText, LineInner>>
  /\ report.outcome = "stats"
  /\ Len(report.values) = 2

ExampleLog == <<LineIncluding, LinePlain, LineText, LineTight>>

ExampleValues ==
  <<ParseFloat(<<"1", "2", "0", ".", "5">>),
    ParseFloat(<<"1", "3", "5", ".", "0">>),
    ParseFloat(<<"9", "9", ".", "9", "9", "9">>)>>

\* C5 as stated: for the example log the captured values are
\* [120.5, 135.0, 99.999] and the row shows min 99.99, max 135.00,
\* average 118.50.
C5_ExampleAsStated ==
  (Extracted /\ payload = ExampleLog) =>
    /\ report.outcome = "stats"
    /\ report.values = ExampleValues
    /\ report.row = <<9999, 13500, 11850>>

\* C5 as amended: for the example log the captured values are
\* [120.5, 135.0, 99.999] and the row shows min 100.00 (99.999 rounded to
\* two decimals), max 135.00, average 118.50.
C5_ExampleRow ==
  (Extracted /\ payload = ExampleLog) =>
    /\ report.outcome = "stats"
    /\ report.values = ExampleValues
    /\ report.row = <<10000, 13500, 11850>>

C5_Witness ==
  /\ Extracted
  /\ payload = ExampleLog
  /\ report.outcome = "stats"
  /\ Len(report.values) = 3

\* C6: for two logs whose lines are permutations of each other the
\* extractor reaches the same outcome and reports the same minimum, maximum
\* and average (the printed row).
C6_OrderIndependent ==
  (Extracted /\ payload # NoFile) =>
    \A other \in Reorderings(payload) :
      /\ extract_tps_stats(other).outcome = report.outcome
      /\ extract_tps_stats(other).row = report.row

---------------------------------------------------------------------------
(* Properties of the test run, checked under Spec *)

Finished == pc \in {"tearDown", "done"}

\* C7 as stated: in every execution of test() the extractor is executed
\* exactly once, after all configured iterations have completed, and the
\* log is not written during or after the extraction.
C7_ExactlyOnceAsStated ==
  (Finished /\ cancelled # "setUp") =>
    /\ extract_runs = 1
    /\ Len(results) = workload_iteration
    /\ payload = extract_input

\* C7 as amended: the extractor is executed at most once; when it is, every
\* configured iteration has completed successfully and written its segment,
\* and the log is not written afterwards; an execution of test() that is
\* not cancelled executes it exactly once, and one cancelled by a failing
\* benchmark command never executes it.
C7_OnceAfterAllRuns ==
  /\ extract_runs \in {0, 1}
  /\ extract_runs = 1 =>
       /\ Finished
       /\ ite = workload_iteration
       /\ Len(results) = workload_iteration
       /\ payload = extract_input
       /\ cancelled = "no"
  /\ (Finished /\ cancelled = "no") => extract_runs = 1
  /\ cancelled = "test" => (extract_runs = 0 /\ Len(results) < workload_iteration)

C7_Witness ==
  /\ pc = "done"
  /\ cancelled = "no"
  /\ extract_runs = 1
  /\ workload_iteration = 2
  /\ Len(results) = 2

\* the payload that holds one segment per run of outs[1..k], in order
RECURSIVE Segments(_, _)
Segments(outs, k) ==
  IF k = 0 THEN <<>>
  ELSE Segments(outs, k - 1) \o <<Header(k)>> \o outs[k]

\* iterations of test()'s loop that have finished
Completed == IF cancelled = "test" THEN ite - 1 ELSE ite

\* C8: after iteration k the payload log holds exactly the k segments of
\* iterations 1..k in order, each a header naming the iteration followed by
\* that run's output; one per-iteration log with that run's output exists
\* for each of them; with workload_iteration = 0 no payload log is created
\* and the extraction ends in "file not found".
C8_OneSegmentPerIteration ==
  /\ Len(results) = Completed
  /\ payload = IF Completed = 0 THEN NoFile ELSE Segments(results, Completed)
  /\ DOMAIN run_logs = 1..Completed
  /\ \A k \in 1..Completed : run_logs[k] = results[k]
  /\ (extract_runs = 1 /\ workload_iteration = 0) =>
       (payload = NoFile /\ report.outcome = "file_not_found")

C8_Witness ==
  /\ pc = "done"
  /\ Completed = 2
  /\ Len(payload) > 2
  /\ results[1] # results[2]

\* C9: tearDown removes the packages if and only if setUp installed them
\* during this run, also when setUp was cancelled part-way, and removes no
\* package when pgbench was already installed.
C9_TearDownUndoesSetUp ==
  pc = "done" =>
    /\ sm_removed = sm_installed
    /\ pgbench_present => sm_removed = {}

\* C10: once setUp has completed, every benchmark invocation carries exactly
\* one limit, with a positive value: --time=<benchmark_duration> when
\* benchmark_duration > 0, --time=120 when both parameters are 0,
\* --transactions=<transaction_count> when benchmark_duration is 0 and
\* transaction_count > 0; the same in every iteration.
C10_OneLimitPerInvocation ==
  \A i \in 1..Len(cmds) :
    /\ cmds[i][2] > 0
    /\ params.benchmark_duration > 0 =>
         cmds[i] = <<"--time", params.benchmark_duration>>
    /\ (params.benchmark_duration = 0 /\ params.transaction_count = 0) =>
         cmds[i] = <<"--time", 120>>
    /\ (params.benchmark_duration = 0 /\ params.transaction_count > 0) =>
         cmds[i] = <<"--transactions", params.transaction_count>>

C10_Witness ==
  /\ Len(cmds) = 2
  /\ params.benchmark_duration = 0
  /\ params.transaction_count = 0
  /\ cmds[2] = <<"--time", 120>>

====
